---- MODULE Spec2Model ----
(***************************************************************************)
(* Model of scripts/comparestandoffs.py: comparison of two sets of         *)
(* brat-flavoured standoff annotations.                                    *)
(*                                                                         *)
(* A Textbound is a record [id, type, start, end, normalizations].  `id`   *)
(* is the object's identity (its position in the list parse_standoff       *)
(* returned): the code keeps Textbound objects in sets, which hash by      *)
(* identity because the class defines neither __eq__ nor __hash__.         *)
(* `normalizations` is the set of norm_id values of the attached           *)
(* Normalization objects.  The text of an annotation only feeds print().   *)
(*                                                                         *)
(* stats is the defaultdict of defaultdict(int): stats.metrics[x] is       *)
(* stats['metrics x'], stats.bytype.matched[t] is                          *)
(* stats['by type']['matched t'], stats.doc[k] is stats['doc-level'][k].   *)
(* A missing key reads 0, so a bucket exists exactly when one of its       *)
(* counters is not 0.                                                      *)
(***************************************************************************)
EXTENDS Integers, Sequences, FiniteSets, TLC

VARIABLES
    options,  \* the argparse namespace after main() has post-processed it
    stats,    \* the accumulator created by compare()
    pc,       \* where the run is: start, loop, return, main, done, raised
    todo,     \* compare_dirs / compare_dbs frames: names still to iterate
    ann1,     \* parse_standoff result of the last file1 / val1
    ann2,     \* parse_standoff result of the last file2 / val2
    res,      \* locals of the last compare_annotations call
    args,     \* arguments of a direct call of one function
    ret       \* value returned by that call, or by main's metrics loop

vars == <<options, stats, pc, todo, ann1, ann2, res, args, ret>>

(***************************************************************************)
(* Bounds of the explored inputs.                                          *)
(***************************************************************************)
MaxPos == 1       \* character offsets are 0..MaxPos
MaxFrags == 2     \* fragments in one span string
MaxRecs == 2      \* textbounds per side of a single compared file pair
MaxNames == 4     \* names in a compared directory tree / keys in a compared DB
MaxLimit == 1     \* largest --limit value
MaxRules == 2     \* rules in one --retype list (direct calls)
MaxCount == 4     \* largest tp / fp / fn handed to prec_rec_f directly

(***************************************************************************)
(* Type policy.                                                            *)
(***************************************************************************)
TYPE_MAP ==
    ("cel" :> "Cell") @@ ("che" :> "Chemical") @@ ("dis" :> "Disease") @@
    ("ggp" :> "Gene") @@ ("org" :> "Organism") @@
    ("Chemical_compound" :> "Chemical") @@ ("Species" :> "Organism")

maptype(type_) == IF type_ \in DOMAIN TYPE_MAP THEN TYPE_MAP[type_] ELSE type_

\* Mutant: only the first type is mapped.
types_match_first_only(type1, type2, opts) ==
    IF ~opts.maptypes
    THEN type1 = type2
    ELSE type1 = type2 \/ maptype(type1) = type2

types_match(type1, type2, opts) ==
    IF ~opts.maptypes
    THEN type1 = type2
    ELSE \/ type1 = type2
         \/ maptype(type1) = type2
         \/ type1 = maptype(type2)
         \/ maptype(type1) = maptype(type2)

(***************************************************************************)
(* Textbound.                                                              *)
(***************************************************************************)
Min(S) == CHOOSE x \in S : \A y \in S : x <= y
Max(S) == CHOOSE x \in S : \A y \in S : x >= y

\* span is the sequence of "start end" fragments that were joined by ';'.
parse_span(span) ==
    IF Len(span) = 1
    THEN <<span[1][1], span[1][2]>>
    ELSE <<Min({span[i][1] : i \in 1..Len(span)}),
           Max({span[i][2] : i \in 1..Len(span)})>>

Textbound(id_, type_, span, norms) ==
    [id |-> id_, type |-> type_,
     start |-> parse_span(span)[1], end |-> parse_span(span)[2],
     normalizations |-> norms]

(***************************************************************************)
(* Transform pipeline.                                                     *)
(***************************************************************************)
filter_by_type(annotations, filtered) ==
    SelectSeq(annotations, LAMBDA a : a.type \notin filtered)

apply_type_mapping(annotations, type_map) ==
    [i \in 1..Len(annotations) |->
        [annotations[i] EXCEPT
            !.type = IF @ \in DOMAIN type_map THEN type_map[@] ELSE @]]

RECURSIVE retype_rules_first_hit(_, _, _)
\* Mutant: the rule loop stops at the first rule that applies.
retype_rules_first_hit(a, from_to_ids_list, k) ==
    IF k > Len(from_to_ids_list)
    THEN a
    ELSE LET r == from_to_ids_list[k]
         IN IF a.type = r.from /\ (\E n \in a.normalizations : n \in r.ids)
            THEN [a EXCEPT !.type = r.to]
            ELSE retype_rules_first_hit(a, from_to_ids_list, k + 1)

RECURSIVE retype_rules(_, _, _)
\* The inner loop of retype_by_norm for one annotation, from rule k on.
retype_rules(a, from_to_ids_list, k) ==
    IF k > Len(from_to_ids_list)
    THEN a
    ELSE LET r == from_to_ids_list[k]
             b == IF a.type = r.from /\ (\E n \in a.normalizations : n \in r.ids)
                  THEN [a EXCEPT !.type = r.to]
                  ELSE a
         IN retype_rules(b, from_to_ids_list, k + 1)

retype_by_norm(annotations, from_to_ids_list) ==
    [i \in 1..Len(annotations) |-> retype_rules(annotations[i], from_to_ids_list, 1)]

(***************************************************************************)
(* Metrics.                                                                *)
(***************************************************************************)
RECURSIVE Gcd(_, _)
Gcd(a, b) == IF b = 0 THEN a ELSE Gcd(b, a % b)

\* A float is modelled by the exact ratio <<n, d>> in lowest terms, d > 0.
Ratio(n, d) == LET g == Gcd(n, d) IN <<n \div g, d \div g>>
Zero == <<0, 1>>

\* Python's n/d raises ZeroDivisionError when d is 0: the marker is the one
\* pair that is no ratio.
ZeroDivisionError == <<0, 0>>
Div(n, d) == IF d = 0 THEN ZeroDivisionError ELSE Ratio(n, d)

\* What a call of prec_rec_f yields: the triple, or the exception of the
\* first division that raised.
PrfResult(p, r, f) ==
    [raised |-> ZeroDivisionError \in {p, r, f}, p |-> p, r |-> r, f |-> f]

\* Mutant: the guard of the precision's denominator is missing.
prec_rec_f_unguarded(tp, fp, fn) ==
    LET p == Div(tp, tp + fp)
        r == IF tp + fn # 0 THEN Div(tp, tp + fn) ELSE Zero
        sn == p[1] * r[2] + r[1] * p[2]
        f == IF sn # 0 THEN Div(2 * p[1] * r[1], sn) ELSE Zero
    IN PrfResult(p, r, f)

prec_rec_f(tp, fp, fn) ==
    LET p == IF tp + fp # 0 THEN Div(tp, tp + fp) ELSE Zero
        r == IF tp + fn # 0 THEN Div(tp, tp + fn) ELSE Zero
        \* p + r = sn / (p[2] * r[2]), so 2*p*r/(p+r) = 2*p[1]*r[1] / sn
        sn == p[1] * r[2] + r[1] * p[2]
        f == IF sn # 0 THEN Div(2 * p[1] * r[1], sn) ELSE Zero
    IN PrfResult(p, r, f)

(***************************************************************************)
(* Matching and scoring: compare_annotations.                              *)
(***************************************************************************)
\* Mutant: force-map runs before the filter.
transform_map_first(annotations, opts) ==
    LET r == IF opts.retype # <<>>
             THEN retype_by_norm(annotations, opts.retype) ELSE annotations
        m == IF opts.forcemap THEN apply_type_mapping(r, TYPE_MAP) ELSE r
    IN IF opts.filtertypes # {} THEN filter_by_type(m, opts.filtertypes) ELSE m

\* Lines 204-212 for one side; both sides go through the same stages.
transform(annotations, opts) ==
    LET r == IF opts.retype # <<>>
             THEN retype_by_norm(annotations, opts.retype) ELSE annotations
        f == IF opts.filtertypes # {} THEN filter_by_type(r, opts.filtertypes) ELSE r
    IN IF opts.forcemap THEN apply_type_mapping(f, TYPE_MAP) ELSE f

\* The condition of the list comprehension, exact-span mode.
exact_cond(a1, a2, opts) ==
    /\ a1.start = a2.start
    /\ a1.end = a2.end
    /\ types_match(a1.type, a2.type, opts)

\* The condition of the list comprehension, overlap mode.
overlap_cond(a1, a2, opts) ==
    /\ \/ (a1.start <= a2.start /\ a1.end >= a2.start)
       \/ (a1.start <= a2.end /\ a1.end >= a2.end)
    /\ types_match(a1.type, a2.type, opts)

\* a2m: the candidates of a1 in anns2, in list order.
a2m(a1, anns2, opts) ==
    IF ~opts.overlap
    THEN SelectSeq(anns2, LAMBDA a2 : exact_cond(a1, a2, opts))
    ELSE SelectSeq(anns2, LAMBDA a2 : overlap_cond(a1, a2, opts))

Ids(annotations) == {annotations[i].id : i \in 1..Len(annotations)}

RECURSIVE bump_matched(_, _, _)
\* for a in chain([a1], a2m): stats['by type']['matched <type>'] += 1
bump_matched(st, as, k) ==
    IF k > Len(as)
    THEN st
    ELSE bump_matched([st EXCEPT !.bytype.matched[as[k].type] = @ + 1], as, k + 1)

\* Lines 232-238: a1 has candidates m.
on_match(acc, a1, m) ==
    LET s1 == [acc.stats EXCEPT !.metrics["total"].TP = @ + 1]
        s2 == [s1 EXCEPT !.metrics[a1.type].TP = @ + 1]
    IN [acc EXCEPT !.match1 = @ \cup {a1.id},
                   !.match2 = @ \cup Ids(m),
                   !.stats = bump_matched(s2, <<a1>> \o m, 1)]

\* Lines 240-244: a1 has no candidate.
on_only1(acc, a1) ==
    LET s1 == [acc.stats EXCEPT !.metrics["total"].FN = @ + 1]
        s2 == [s1 EXCEPT !.metrics[a1.type].FN = @ + 1]
    IN [acc EXCEPT !.only1 = @ \cup {a1.id},
                   !.stats = [s2 EXCEPT !.bytype.missed[a1.type] = @ + 1]]

\* Lines 247-251: a2 was claimed by no a1.
on_only2(acc, a2) ==
    LET s1 == [acc.stats EXCEPT !.metrics["total"].FP = @ + 1]
        s2 == [s1 EXCEPT !.metrics[a2.type].FP = @ + 1]
    IN [acc EXCEPT !.only2 = @ \cup {a2.id},
                   !.stats = [s2 EXCEPT !.bytype.missed[a2.type] = @ + 1]]

RECURSIVE match_loop(_, _, _, _, _)
\* for a1 in ann1, from index k on.
match_loop(anns1, anns2, opts, k, acc) ==
    IF k > Len(anns1)
    THEN acc
    ELSE LET a1 == anns1[k]
             m == a2m(a1, anns2, opts)
         IN match_loop(anns1, anns2, opts, k + 1,
                       IF m # <<>> THEN on_match(acc, a1, m) ELSE on_only1(acc, a1))

RECURSIVE only2_loop(_, _, _)
\* for a2 in ann2, from index k on.
only2_loop(anns2, k, acc) ==
    IF k > Len(anns2)
    THEN acc
    ELSE only2_loop(anns2, k + 1,
                    IF anns2[k].id \notin acc.match2
                    THEN on_only2(acc, anns2[k]) ELSE acc)

\* Mutant: a match with one empty side still counts as match-nonempty.
doc_level_either(st, acc) ==
    LET d == IF acc.only1 # {} \/ acc.only2 # {}
             THEN [st.doc EXCEPT !["mismatch"] = @ + 1]
             ELSE IF acc.match1 # {} \/ acc.match2 # {}
                  THEN [st.doc EXCEPT !["match"] = @ + 1, !["match-nonempty"] = @ + 1]
                  ELSE [st.doc EXCEPT !["match"] = @ + 1]
    IN [st EXCEPT !.doc = [d EXCEPT !["TOTAL"] = @ + 1]]

\* Lines 253-262: the document's verdict.
doc_level(st, acc) ==
    LET d == IF acc.only1 # {} \/ acc.only2 # {}
             THEN [st.doc EXCEPT !["mismatch"] = @ + 1]
             ELSE IF acc.match1 # {} /\ acc.match2 # {}
                  THEN [st.doc EXCEPT !["match"] = @ + 1, !["match-nonempty"] = @ + 1]
                  ELSE [st.doc EXCEPT !["match"] = @ + 1, !["match-empty"] = @ + 1]
    IN [st EXCEPT !.doc = [d EXCEPT !["TOTAL"] = @ + 1]]

Larger(m, n) == IF m >= n THEN m ELSE n

\* Lines 264-269: the rough score of the document.
score(acc) ==
    IF acc.only1 # {} \/ acc.only2 # {}
    THEN 0 - Larger(Cardinality(acc.only1), Cardinality(acc.only2))
    ELSE Larger(Cardinality(acc.match1), Cardinality(acc.match2))

\* What the call leaves: the returned stats and the locals at the return.
returned(t1, t2, acc) ==
    [stats |-> doc_level(acc.stats, acc), ann1 |-> t1, ann2 |-> t2,
     match1 |-> acc.match1, only1 |-> acc.only1,
     match2 |-> acc.match2, only2 |-> acc.only2, score |-> score(acc)]

compare_annotations(anns1, anns2, opts, st) ==
    LET t1 == transform(anns1, opts)
        t2 == transform(anns2, opts)
    IN returned(t1, t2,
                only2_loop(t2, 1,
                           match_loop(t1, t2, opts, 1,
                                      [stats |-> st, match1 |-> {}, only1 |-> {},
                                       match2 |-> {}, only2 |-> {}])))

(***************************************************************************)
(* Inputs.                                                                 *)
(***************************************************************************)
Positions == 0..MaxPos
Fragments == Positions \X Positions

\* Span strings "s e" and "s1 e1;s2 e2;...", also with s > e: parse_span
\* checks no order.
SpanInputs == UNION {[1..n -> Fragments] : n \in 1..MaxFrags}

\* Type labels of the records of documents: a TYPE_MAP key, its canonical
\* name, and a label outside the map.
DocTypes == {"che", "Chemical", "total"}

Textbounds(types, spans, norms) ==
    {Textbound(0, t, sp, ns) : t \in types, sp \in spans, ns \in norms}

\* What parse_standoff can return for a document of at most n textbounds
\* drawn from R; the i-th object of the list gets identity i.
Parsed(R, n) ==
    UNION {{[i \in 1..k |-> [s[i] EXCEPT !.id = i]] : s \in [1..k -> R]} : k \in 0..n}

\* Lines of the documents of a compared file pair: "<type> 0 1" for every
\* type, "che 0 1" with an N line of reference "1", and "Chemical 1 2".
FileTextbounds ==
    Textbounds(DocTypes, {<<<<0, 1>>>>}, {{}})
        \cup Textbounds({"che"}, {<<<<0, 1>>>>}, {{"1"}})
        \cup Textbounds({"Chemical"}, {<<<<1, 2>>>>}, {{}})

FileDocs == Parsed(FileTextbounds, MaxRecs)
\* Documents of a directory tree or of a store: empty, or one textbound.
RunDocs == Parsed(Textbounds({"che", "total"}, {<<<<0, 1>>>>}, {{}}), 1)

None == <<>>
Limits == {None} \cup {<<n>> : n \in 0..MaxLimit}
RetypeChoices == {<<>>, <<[from |-> "che", to |-> "Chemical", ids |-> {"1"}]>>}
FilterChoices == {{}, {"che"}}

Options(filters, limits, retypes, flags) ==
    [filtertypes : filters, limit : limits, maptypes : flags,
     forcemap : flags, overlap : flags, retype : retypes]

MetricKeys == DocTypes \cup {"total"}
DocKeys == {"match", "mismatch", "match-empty", "match-nonempty", "TOTAL"}
NoMetrics == [x \in MetricKeys |-> [TP |-> 0, FP |-> 0, FN |-> 0]]

\* compare(): stats = defaultdict(lambda: defaultdict(int))
NewStats ==
    [metrics |-> NoMetrics,
     bytype |-> [matched |-> [t \in DocTypes |-> 0], missed |-> [t \in DocTypes |-> 0]],
     doc |-> [k \in DocKeys |-> 0]]

NoRes == [ann1 |-> <<>>, ann2 |-> <<>>, match1 |-> {}, only1 |-> {},
          match2 |-> {}, only2 |-> {}, score |-> 0]
NoCall == [call |-> "none"]

(***************************************************************************)
(* The run: main -> compare -> compare_files / compare_dirs / compare_dbs. *)
(***************************************************************************)
\* if options.limit is not None and stats['doc-level']['TOTAL'] > options.limit
limit_reached(st) ==
    options.limit # None /\ st.doc["TOTAL"] > options.limit[1]

Top == todo[Len(todo)]
Rest(frame) == [frame EXCEPT !.names = Tail(@)]
SetTop(frame) == [todo EXCEPT ![Len(todo)] = frame]

File == [kind |-> "file", names |-> <<>>]
Skip == [kind |-> "skip", names |-> <<>>]
Dir(names) == [kind |-> "dir", names |-> names]
Db(names) == [kind |-> "db", names |-> names]

RECURSIVE Listings(_)
\* The sorted common names of two directories, n names in the whole tree:
\* each is a file with the suffix on both sides, a directory on both sides
\* (with its own listing), or a name that is skipped.
Listings(n) ==
    IF n = 0
    THEN {<<>>}
    ELSE {<<e>> \o rest : e \in {File, Skip}, rest \in Listings(n - 1)}
         \cup UNION {{<<Dir(sub)>> \o rest : sub \in Listings(k), rest \in Listings(n - 1 - k)}
                        : k \in 0..(n - 1)}

\* The keys of db1: with the suffix and present in db2, or skipped.
DbListings == UNION {[1..n -> {File, Skip}] : n \in 0..MaxNames}

\* What compare() is called on by main: two directories or two stores.
Corpora ==
    {Dir(names) : names \in UNION {Listings(n) : n \in 0..MaxNames}}
        \cup {Db(names) : names \in DbListings}

\* parse_standoff of both sides succeeded: compare_annotations runs.
Compared(d1, d2) ==
    \E c \in {compare_annotations(d1, d2, options, stats)} :
        /\ ann1' = d1
        /\ ann2' = d2
        /\ stats' = c.stats
        /\ res' = [ann1 |-> c.ann1, ann2 |-> c.ann2,
                   match1 |-> c.match1, only1 |-> c.only1,
                   match2 |-> c.match2, only2 |-> c.only2, score |-> c.score]

\* compare() on two files: compare_files parses both and compares them.
CompareFiles ==
    /\ pc = "start"
    /\ \E d1 \in FileDocs, d2 \in FileDocs : Compared(d1, d2)
    /\ pc' = "main"
    /\ UNCHANGED <<options, todo, args, ret>>

\* compare() on two files, one of them with a malformed T or N line:
\* parse_standoff raises, compare() logs and re-raises, main does not catch.
CompareFilesRaise ==
    /\ pc = "start"
    /\ pc' = "raised"
    /\ UNCHANGED <<options, stats, todo, ann1, ann2, res, args, ret>>

\* One iteration of compare_dirs on a name that is a file with the suffix on
\* both sides: compare() -> compare_files, then the limit check.
DirFile ==
    /\ pc = "loop" /\ Top.kind = "dir"
    /\ Top.names # <<>> /\ Head(Top.names).kind = "file"
    /\ \E d1 \in RunDocs, d2 \in RunDocs : Compared(d1, d2)
    /\ todo' = SetTop(Rest(Top))
    /\ pc' = IF limit_reached(stats') THEN "return" ELSE "loop"
    /\ UNCHANGED <<options, args, ret>>

\* One iteration of compare_dirs on a name that is skipped (no suffix, or
\* path2 of another shape: compare() warns and returns stats), then the
\* limit check.
DirSkip ==
    /\ pc = "loop" /\ Top.kind = "dir"
    /\ Top.names # <<>> /\ Head(Top.names).kind = "skip"
    /\ todo' = SetTop(Rest(Top))
    /\ pc' = IF limit_reached(stats) THEN "return" ELSE "loop"
    /\ UNCHANGED <<options, stats, ann1, ann2, res, args, ret>>

\* One iteration of compare_dirs on a name that is a directory on both
\* sides: compare() -> compare_dirs on the pair.
DirEnter ==
    /\ pc = "loop" /\ Top.kind = "dir"
    /\ Top.names # <<>> /\ Head(Top.names).kind = "dir"
    /\ todo' = Append(SetTop(Rest(Top)), Head(Top.names))
    /\ UNCHANGED <<options, stats, pc, ann1, ann2, res, args, ret>>

\* One iteration of compare_dbs on a key with the suffix that db2 holds too;
\* the limit check follows the comparison.
DbItem ==
    /\ pc = "loop" /\ Top.kind = "db"
    /\ Top.names # <<>> /\ Head(Top.names).kind = "file"
    /\ \E d1 \in RunDocs, d2 \in RunDocs : Compared(d1, d2)
    /\ todo' = SetTop(Rest(Top))
    /\ pc' = IF limit_reached(stats') THEN "return" ELSE "loop"
    /\ UNCHANGED <<options, args, ret>>

\* One iteration of compare_dbs that ends in `continue`: another suffix, or
\* the key is missing in db2.
DbSkip ==
    /\ pc = "loop" /\ Top.kind = "db"
    /\ Top.names # <<>> /\ Head(Top.names).kind = "skip"
    /\ todo' = SetTop(Rest(Top))
    /\ UNCHANGED <<options, stats, pc, ann1, ann2, res, args, ret>>

\* Mutant: the document is counted before it is parsed.
ParseRaiseCounted ==
    /\ pc = "loop"
    /\ Top.names # <<>> /\ Head(Top.names).kind = "file"
    /\ pc' = "raised"
    /\ stats' = [stats EXCEPT !.doc["TOTAL"] = @ + 1]
    /\ UNCHANGED <<options, todo, ann1, ann2, res, args, ret>>

\* A document of a directory or store has a malformed T or N line:
\* parse_standoff raises and nothing up to main catches it.
ParseRaise ==
    /\ pc = "loop"
    /\ Top.names # <<>> /\ Head(Top.names).kind = "file"
    /\ pc' = "raised"
    /\ UNCHANGED <<options, stats, todo, ann1, ann2, res, args, ret>>

\* compare_dirs / compare_dbs returns stats: the loop ended or the limit
\* check returned.  The caller is main, or the iteration of compare_dirs
\* that made the call, which goes on with its own limit check.
Return ==
    /\ \/ pc = "return"
       \/ pc = "loop" /\ Top.names = <<>>
    /\ todo' = SubSeq(todo, 1, Len(todo) - 1)
    /\ pc' = IF Len(todo) = 1 THEN "main"
             ELSE IF limit_reached(stats) THEN "return" ELSE "loop"
    /\ UNCHANGED <<options, stats, ann1, ann2, res, args, ret>>

\* main, lines 397-417: prec_rec_f of every metrics bucket, which is then
\* deleted from stats; the other buckets are printed.
Report ==
    /\ pc = "main"
    /\ ret' = [call |-> "main",
               metrics |-> [m \in {x \in MetricKeys : stats.metrics[x] # NoMetrics[x]} |->
                               prec_rec_f(stats.metrics[m].TP, stats.metrics[m].FP,
                                          stats.metrics[m].FN)]]
    /\ stats' = [stats EXCEPT !.metrics = NoMetrics]
    /\ pc' = "done"
    /\ UNCHANGED <<options, todo, ann1, ann2, res, args>>

InitRun(opts, calls, at) ==
    /\ options \in opts
    /\ stats = NewStats
    /\ pc = at
    /\ todo \in calls
    /\ ann1 = <<>> /\ ann2 = <<>> /\ res = NoRes
    /\ args = NoCall /\ ret = NoCall

\* A run on a pair of directories or of stores: main has called compare(),
\* which created stats and entered compare_dirs or compare_dbs.
Init ==
    InitRun(Options({{}}, Limits, {<<>>}, {FALSE}), {<<c>> : c \in Corpora}, "loop")

Next ==
    \/ DirFile
    \/ DirSkip
    \/ DirEnter
    \/ DbItem
    \/ DbSkip
    \/ ParseRaise
    \/ Return
    \/ Report

Spec == Init /\ [][Next]_vars

\* A run on one pair of files: main has called compare(), which created
\* stats.
InitFile ==
    InitRun(Options(FilterChoices, {None}, RetypeChoices, BOOLEAN), {<<>>}, "start")

NextFile ==
    \/ CompareFiles
    \/ CompareFilesRaise

SpecFile == InitFile /\ [][NextFile]_vars

(***************************************************************************)
(* Direct calls of the pure functions.                                     *)
(***************************************************************************)
AllTypes == DOMAIN TYPE_MAP \cup {TYPE_MAP[k] : k \in DOMAIN TYPE_MAP} \cup {"total", "Protein"}
RuleTypes == {"A", "B", "C"}
Rules == [from : RuleTypes, to : RuleTypes, ids : {{"1"}, {"2"}, {"1", "2"}}]
Counts == 0..MaxCount

CallInputs ==
    [call : {"types_match"}, type1 : AllTypes, type2 : AllTypes, maptypes : BOOLEAN]
        \cup [call : {"a2m"}, a1 : Textbounds(DocTypes, SpanInputs, {{}}),
              a2 : Textbounds(DocTypes, SpanInputs, {{}}), maptypes : BOOLEAN]
        \cup [call : {"retype_by_norm"},
              a : Textbounds(RuleTypes, {<<<<0, 1>>>>}, {{}, {"1"}, {"1", "2"}}),
              rules : UNION {[1..n -> Rules] : n \in 0..MaxRules}]
        \cup [call : {"prec_rec_f"}, tp : Counts, fp : Counts, fn : Counts]

MatchOptions(maptypes, overlap) == [maptypes |-> maptypes, overlap |-> overlap]

call_types_match ==
    /\ args.call = "types_match" /\ ret = NoCall
    /\ ret' = [call |-> "types_match",
               value |-> types_match(args.type1, args.type2,
                                     MatchOptions(args.maptypes, FALSE))]
    /\ UNCHANGED <<options, stats, pc, todo, ann1, ann2, res, args>>

\* The candidate list of a1 against the one-record list [a2], computed
\* without and with --overlap.
call_a2m ==
    /\ args.call = "a2m" /\ ret = NoCall
    /\ ret' = [call |-> "a2m",
               exact |-> a2m(args.a1, <<args.a2>>, MatchOptions(args.maptypes, FALSE)),
               overlap |-> a2m(args.a1, <<args.a2>>, MatchOptions(args.maptypes, TRUE))]
    /\ UNCHANGED <<options, stats, pc, todo, ann1, ann2, res, args>>

call_retype_by_norm ==
    /\ args.call = "retype_by_norm" /\ ret = NoCall
    /\ ret' = [call |-> "retype_by_norm",
               value |-> retype_by_norm(<<args.a>>, args.rules)]
    /\ UNCHANGED <<options, stats, pc, todo, ann1, ann2, res, args>>

call_prec_rec_f ==
    /\ args.call = "prec_rec_f" /\ ret = NoCall
    /\ ret' = [call |-> "prec_rec_f", value |-> prec_rec_f(args.tp, args.fp, args.fn)]
    /\ UNCHANGED <<options, stats, pc, todo, ann1, ann2, res, args>>

InitCalls ==
    /\ options \in Options({{}}, {None}, {<<>>}, {FALSE})
    /\ stats = NewStats
    /\ pc = "call"
    /\ todo = <<>>
    /\ ann1 = <<>> /\ ann2 = <<>> /\ res = NoRes
    /\ args \in CallInputs
    /\ ret = NoCall

NextCalls ==
    \/ call_types_match
    \/ call_a2m
    \/ call_retype_by_norm
    \/ call_prec_rec_f

SpecCalls == InitCalls /\ [][NextCalls]_vars

(***************************************************************************)
(* Properties.                                                             *)
(***************************************************************************)
DefaultOptions ==
    /\ ~options.overlap /\ ~options.maptypes /\ ~options.forcemap
    /\ options.filtertypes = {} /\ options.retype = <<>>

Total == stats.metrics["total"]

\* Positions of the set1 records (after the transforms) with a candidate.
WithCandidate ==
    {i \in 1..Len(res.ann1) : a2m(res.ann1[i], res.ann2, options) # <<>>}

\* Identities of the set2 records that some set1 record has as a candidate.
Claimed ==
    UNION {Ids(a2m(res.ann1[i], res.ann2, options)) : i \in 1..Len(res.ann1)}

\* C1: a document compared with a second parse of itself under the default
\* options adds TP = number of records and FP = FN = 0 to 'metrics total',
\* and is tallied match-nonempty when it has a record, match-empty when not.
C1_SelfComparison ==
    (pc = "main" /\ ann1 = ann2 /\ DefaultOptions) =>
        /\ Total = [TP |-> Len(ann1), FP |-> 0, FN |-> 0]
        /\ stats.doc["match-nonempty"] = (IF Len(ann1) > 0 THEN 1 ELSE 0)
        /\ stats.doc["match-empty"] = (IF Len(ann1) = 0 THEN 1 ELSE 0)

\* C2: with --limit N, the run ends with at most N compared document pairs.
C2_LimitStopsAfterN ==
    (pc \in {"main", "done"} /\ options.limit # None) =>
        stats.doc["TOTAL"] <= options.limit[1]

RECURSIVE FilesIn(_)
\* Document pairs among names, those of the directories below included.
FilesIn(names) ==
    IF names = <<>>
    THEN 0
    ELSE (IF Head(names).kind = "file" THEN 1 ELSE FilesIn(Head(names).names))
         + FilesIn(Tail(names))

RECURSIVE PendingFrom(_)
\* Document pairs not yet compared, in the frames from k up.
PendingFrom(k) ==
    IF k > Len(todo) THEN 0 ELSE FilesIn(todo[k].names) + PendingFrom(k + 1)

C4_OverlapSupersetOfExact ==
    ret.call = "a2m" => (ret.exact # <<>> => ret.overlap # <<>>)

\* C5: types_match is reflexive and symmetric, with and without maptypes.
C5_TypesMatchReflexiveSymmetric ==
    ret.call = "types_match" =>
        /\ ret.value = types_match(args.type2, args.type1,
                                   MatchOptions(args.maptypes, FALSE))
        /\ (args.type1 = args.type2 => ret.value)

C5_Witness ==
    /\ ret.call = "types_match"
    /\ args.maptypes /\ args.type1 # args.type2 /\ ret.value

\* The type a record has when filter_by_type runs.
TypeAtFilter(a) ==
    IF options.retype # <<>> THEN retype_by_norm(<<a>>, options.retype)[1].type ELSE a.type

Dropped1(i) == i \notin Ids(res.ann1) \cup res.match1 \cup res.only1
Dropped2(i) == i \notin Ids(res.ann2) \cup res.match2 \cup res.only2

\* C6 as stated: with filtertypes and forcemap, every record whose original
\* type is excluded is dropped from matching.
C6_OriginalTypeFiltered ==
    (pc = "main" /\ options.filtertypes # {} /\ options.forcemap) =>
        /\ \A i \in 1..Len(ann1) : ann1[i].type \in options.filtertypes => Dropped1(i)
        /\ \A i \in 1..Len(ann2) : ann2[i].type \in options.filtertypes => Dropped2(i)

\* C6, amended: with filtertypes and forcemap, every record whose type when
\* the filter runs (its original type, or the type retype gave it) is
\* excluded is dropped from matching, also when its canonical form is not
\* excluded.
C6_FilterBeforeForcemap ==
    (pc = "main" /\ options.filtertypes # {} /\ options.forcemap) =>
        /\ \A i \in 1..Len(ann1) :
            TypeAtFilter(ann1[i]) \in options.filtertypes => Dropped1(i)
        /\ \A i \in 1..Len(ann2) :
            TypeAtFilter(ann2[i]) \in options.filtertypes => Dropped2(i)

C6_Witness ==
    /\ pc = "main" /\ options.filtertypes # {} /\ options.forcemap
    /\ \E i \in 1..Len(ann1) :
        /\ TypeAtFilter(ann1[i]) \in options.filtertypes
        /\ maptype(TypeAtFilter(ann1[i])) \notin options.filtertypes
        /\ Dropped1(i)
    /\ res.ann1 # <<>>

RuleHits(k) == \E n \in args.a.normalizations : n \in args.rules[k].ids

\* C7: rules [(A, B, I1), (B, C, I2)] take a record of type A with a
\* reference in I1 and I2 to C in one pass; the type changes only through a
\* rule whose from-type is the record's type at that point and whose id-set
\* holds one of its references.
C7_RetypeChains ==
    ret.call = "retype_by_norm" =>
        LET a == args.a
            rules == args.rules
            out == ret.value[1].type
        IN /\ ret.value = <<[a EXCEPT !.type = out]>>
           /\ (/\ Len(rules) = 2
               /\ rules[1].from = a.type
               /\ rules[2].from = rules[1].to
               /\ \E n \in a.normalizations : n \in rules[1].ids \cap rules[2].ids)
                  => out = rules[2].to
           /\ out # a.type =>
                \E k \in 1..Len(rules) :
                    /\ rules[k].to = out
                    /\ RuleHits(k)
                    /\ \/ rules[k].from = a.type
                       \/ \E j \in 1..(k - 1) :
                            rules[j].to = rules[k].from /\ RuleHits(j)
           /\ (\A k \in 1..Len(rules) : ~(rules[k].from = a.type /\ RuleHits(k)))
                  => out = a.type

C7_Witness ==
    /\ ret.call = "retype_by_norm"
    /\ args.a.type = "A"
    /\ args.rules = <<[from |-> "A", to |-> "B", ids |-> {"1"}],
                      [from |-> "B", to |-> "C", ids |-> {"1", "2"}]>>
    /\ "1" \in args.a.normalizations
    /\ ret.value[1].type = "C"

\* C8: prec_rec_f raises on no counts; a ratio with denominator 0 is 0.
C8_NoZeroDivision ==
    ret.call = "prec_rec_f" =>
        /\ ~ret.value.raised
        /\ args.tp + args.fp = 0 => ret.value.p = Zero
        /\ args.tp + args.fn = 0 => ret.value.r = Zero
        /\ (ret.value.p = Zero /\ ret.value.r = Zero) => ret.value.f = Zero

C8_Witness ==
    /\ ret.call = "prec_rec_f"
    /\ args.tp = 0 /\ args.fp = 0 /\ args.fn = 0
    /\ ret.value = [raised |-> FALSE, p |-> Zero, r |-> Zero, f |-> Zero]

\* C9: one comparison adds TP once per set1 record with a candidate and FN
\* once per other set1 record, and FP once per set2 record that no set1
\* record has as a candidate.
C9_CountsPerRecord ==
    pc = "main" =>
        /\ Total.TP = Cardinality(WithCandidate)
        /\ Total.TP + Total.FN = Len(res.ann1)
        /\ Total.FP = Len(res.ann2) - Cardinality(Claimed)

\* One comparison's effect on the doc-level counters.
DocLevelStep ==
    LET d == stats.doc
        e == stats'.doc
        unmatched == \/ WithCandidate' # 1..Len(res'.ann1)
                     \/ Claimed' # Ids(res'.ann2)
    IN /\ e["TOTAL"] = d["TOTAL"] + 1
       /\ e["mismatch"] = d["mismatch"] + (IF unmatched THEN 1 ELSE 0)
       /\ e["match"] = d["match"] + (IF unmatched THEN 0 ELSE 1)
       /\ e["match-empty"] = d["match-empty"] +
            (IF ~unmatched /\ res'.ann1 = <<>> /\ res'.ann2 = <<>> THEN 1 ELSE 0)
       /\ e["match-nonempty"] = d["match-nonempty"] +
            (IF ~unmatched /\ WithCandidate' # {} /\ Claimed' # {} THEN 1 ELSE 0)

\* C10: every comparison adds one to TOTAL and to exactly one of match and
\* mismatch, match exactly when no record of either side is unmatched; a
\* match adds to match-empty exactly when both sides are empty and to
\* match-nonempty exactly when both sides have a matched record.  So
\* TOTAL = match + mismatch and match = match-nonempty + match-empty.
C10_DocLevelTallies ==
    /\ [](/\ stats.doc["TOTAL"] = stats.doc["match"] + stats.doc["mismatch"]
          /\ stats.doc["match"] = stats.doc["match-nonempty"] + stats.doc["match-empty"])
    /\ [][(DirFile \/ DbItem) => DocLevelStep]_vars

C10_Witness ==
    /\ pc = "main"
    /\ stats.doc["match-empty"] >= 1
    /\ stats.doc["match-nonempty"] >= 1
    /\ stats.doc["mismatch"] >= 1

\* Set1 records (after the transforms) without a candidate, and set2
\* records that no set1 record has as a candidate.
Unmatched1 == Len(res.ann1) - Cardinality(WithCandidate)
Unmatched2 == Len(res.ann2) - Cardinality(Claimed)

\* The set1 records of type t that entered matching.
OfType1(t) == {i \in 1..Len(res.ann1) : res.ann1[i].type = t}

\* C11: the score of a document is minus the larger of the two counts of
\* unmatched records when it is a mismatch, and the larger of the two
\* matched-set sizes when it is a match; n >= 1 set1 records against an empty
\* set2 add FN = n (and to the bucket of each record's type the number of
\* records of that type), are
\* tallied 'mismatch' and score -n.
C11_ScoreAndMissedDocument ==
    pc = "main" =>
        /\ res.score =
            (IF Unmatched1 > 0 \/ Unmatched2 > 0
             THEN 0 - (IF Unmatched1 >= Unmatched2 THEN Unmatched1 ELSE Unmatched2)
             ELSE IF Cardinality(WithCandidate) >= Cardinality(Claimed)
                  THEN Cardinality(WithCandidate)
                  ELSE Cardinality(Claimed))
        /\ (res.ann1 # <<>> /\ res.ann2 = <<>>) =>
            /\ Total.FN = Len(res.ann1)
            /\ \A i \in 1..Len(res.ann1) :
                stats.metrics[res.ann1[i].type].FN = Cardinality(OfType1(res.ann1[i].type))
            /\ stats.doc["mismatch"] = 1
            /\ res.score = 0 - Len(res.ann1)

\* The type labels that counted records have carried so far: every step
\* that touches 'metrics <type>' also touches 'by type' for that type.
TypesSeen ==
    {t \in DocTypes : stats.bytype.matched[t] + stats.bytype.missed[t] > 0}

RECURSIVE SumOfTypes(_, _)
\* The sum of counter k of the buckets 'metrics t', t in types.
SumOfTypes(types, k) ==
    IF types = {}
    THEN 0
    ELSE LET t == CHOOSE x \in types : TRUE
         IN stats.metrics[t][k] + SumOfTypes(types \ {t}, k)

\* C12: after any sequence of comparisons on one accumulator, each counter
\* of 'metrics total' is the sum of that counter over the buckets
\* 'metrics t' of the type labels t that records carry, whatever the labels.
C12_AggregateIsSumOfTypes ==
    \A k \in {"TP", "FP", "FN"} : Total[k] = SumOfTypes(TypesSeen, k)

\* C13: without --overlap, comparing the two lists in the other order, under
\* the same options and on a fresh accumulator, exchanges FN and FP (in the
\* aggregate and in every per-type bucket) and gives the same verdict.
C13_SwapExchangesMisses ==
    (pc = "main" /\ ~options.overlap) =>
        \E c \in {compare_annotations(ann2, ann1, options, NewStats)} :
            /\ \A t \in MetricKeys :
                /\ stats.metrics[t].FN = c.stats.metrics[t].FP
                /\ stats.metrics[t].FP = c.stats.metrics[t].FN
            /\ stats.doc["mismatch"] = c.stats.doc["mismatch"]
            /\ stats.doc["match"] = c.stats.doc["match"]

\* A pair of lists whose FN and FP differ and whose TP differs between the
\* two orders.
C13_Witness ==
    /\ pc = "main" /\ ~options.overlap
    /\ Total.FN # Total.FP
    /\ \E c \in {compare_annotations(ann2, ann1, options, NewStats)} :
        /\ c.stats.metrics["total"].TP # Total.TP
        /\ c.stats.metrics["total"].FP = Total.FN

====
